---- MODULE Spec2Model ----
(***************************************************************************)
(* State-machine model of the onboardai frontend (React, TypeScript):      *)
(*   - the Upload page   (src/unnamed/part_000, lines 24-262),             *)
(*   - the Chat page     (src/unnamed/part_002, lines 1-405),              *)
(*   - the axios wrapper (src/rag_app/frontend/src/api.ts).                *)
(* One action is one run-to-completion step of the JavaScript event loop:  *)
(* an event handler, or the continuation of an async handler after an      *)
(* await.  React state written in a step is read by the next step; an      *)
(* effect that depends on a state variable runs in the step that changes   *)
(* it.  Each page is modelled for the lifetime of one mounted component.   *)
(***************************************************************************)
EXTENDS Integers, Sequences, FiniteSets, TLC

(***************************************************************************)
(* Bounds of the model.                                                    *)
(***************************************************************************)
MaxNameLen == 4
MaxRuns == 2
TransferUnits == 2
MaxMessages == 4
MaxTranscript == 2
MaxValidations == 2
MaxRequests == 2

(***************************************************************************)
(* Strings are sequences of one-character strings, so that split, pop,     *)
(* toLowerCase and trim do what the JavaScript does.                       *)
(***************************************************************************)
RECURSIVE SeqsUpTo(_, _)
SeqsUpTo(S, n) ==
  IF n = 0 THEN {<<>>}
  ELSE LET shorter == SeqsUpTo(S, n - 1)
       IN  shorter \cup {Append(s, c) : s \in {t \in shorter : Len(t) = n - 1}, c \in S}

Range(s) == {s[i] : i \in 1..Len(s)}

(***************************************************************************)
(* Upload page: constants and validateFile.                                *)
(***************************************************************************)
MAX_FILE_SIZE == 50 * 1024 * 1024

ALLOWED_TYPES ==
  << <<".", "p", "d", "f">>,
     <<".", "d", "o", "c", "x">>,
     <<".", "m", "d">>,
     <<".", "h", "t", "m", "l">>,
     <<".", "t", "x", "t">> >>

\* String.prototype.toLowerCase on the characters the model uses.
LowerChar(c) ==
  CASE c = "M" -> "m"
    [] c = "D" -> "d"
    [] c = "P" -> "p"
    [] c = "F" -> "f"
    [] c = "T" -> "t"
    [] c = "X" -> "x"
    [] OTHER -> c

toLowerCase(s) == [i \in 1..Len(s) |-> LowerChar(s[i])]

\* String.prototype.split('.'): the pieces between the dots, always at
\* least one piece (the whole string when it holds no dot).
RECURSIVE SplitDot(_)
SplitDot(s) ==
  IF \A i \in 1..Len(s) : s[i] # "."
  THEN <<s>>
  ELSE LET d == CHOOSE i \in 1..Len(s) : s[i] = "." /\ \A j \in 1..(i - 1) : s[j] # "."
       IN  <<SubSeq(s, 1, d - 1)>> \o SplitDot(SubSeq(s, d + 1, Len(s)))

\* Array.prototype.pop: the last element.
Pop(pieces) == pieces[Len(pieces)]

\* Array.prototype.includes.
Includes(arr, x) == \E i \in 1..Len(arr) : arr[i] = x

Null == "null"
SizeError == "File size exceeds 50MB limit."
TypeError == "Invalid file type. Allowed types: .pdf, .docx, .md, .html, .txt"

\* line 68: '.' + file.name.split('.').pop()?.toLowerCase()
ExtensionOf(name) == <<".">> \o toLowerCase(Pop(SplitDot(name)))

validateFile(file) ==
  IF file.size > MAX_FILE_SIZE THEN SizeError
  ELSE IF ~Includes(ALLOWED_TYPES, ExtensionOf(file.name)) THEN TypeError
  ELSE Null

(***************************************************************************)
(* State.                                                                  *)
(***************************************************************************)
VARIABLES
  \* validateFile applied to one candidate file (specification SpecValidate)
  vFile, vResult,
  \* Upload component state (part_000 lines 38-42)
  files, uploading, message, uploadProgress, chunksProcessed,
  \* the FileList of the latest change event of the file input (line 83),
  \* and a bit that flips at every change event
  selectedFiles, changeTick,
  \* one record per running call of handleUpload: the files its closure
  \* captured, the positions whose /upload request it has issued and those
  \* whose request has settled, and the progress of the request in flight
  runs,
  \* the record of the call of handleUpload that ended last, kept until
  \* the next call starts
  ended,
  \* Chat component state (part_002 lines 34-40)
  messages, input, loading, language,
  \* localStorage item 'chatMessages': <<>> when absent, else <<text>>
  chatStore,
  \* one record per call of handleSubmit that awaits its /chat request
  asks,
  \* what the /chat request that settled last settled with
  settledChat,
  \* a transcript, what it is restored to from its persisted text, and
  \* whether that was done (specification SpecRoundTrip)
  rtMessages, rtRestored, rtDone,
  \* a transcript under calls of handleFeedback: its value now, its value
  \* before the last call, and the arguments of the last call
  \* (specification SpecFeedback)
  fbMessages, fbBefore, fbLast,
  \* Chat component state (part_002 line 44), its value before the last
  \* call of toggleSources, and the position that call toggled (0: none)
  expandedSources, prevExpanded, lastToggled,
  \* Chat component state (part_002 lines 41-43): the feedback modal, its
  \* text as a sequence of pieces, the selected position (0: null), and
  \* the handler of the modal that ran last
  showFeedbackModal, feedbackText, selectedMessageIndex, modalEvent,
  \* Settings component state (part_002 lines 416-420)
  openAiKey, tavilyKey, settingsMessage, settingsError, savedKeys,
  \* localStorage items 'openAiKey' and 'tavilyKey': <<>> when absent, else
  \* <<text>>
  storedOpenAi, storedTavily,
  \* one record per call of saveKeys that awaits its /validate_keys
  \* request: the trimmed keys its closure holds
  validations,
  \* how the /validate_keys request that settled last settled
  lastValidation,
  \* Upload component state (part_000 lines 43-44): the document cache
  documents, docsLoading,
  \* the paths the remote service holds
  remoteDocs,
  \* one record per outstanding GET /documents request (with what the
  \* service answered, once it has) and one per outstanding DELETE request
  lists, deletes,
  \* the DELETE request that settled last
  lastDelete,
  \* whether a GET /documents request has failed since the last time none
  \* was outstanding
  listFailed

validateVars == <<vFile, vResult>>
uploadVars == <<files, uploading, message, uploadProgress, chunksProcessed,
                selectedFiles, changeTick, runs, ended>>
chatVars == <<messages, input, loading, language, chatStore, asks, settledChat>>
roundTripVars == <<rtMessages, rtRestored, rtDone>>
feedbackVars == <<fbMessages, fbBefore, fbLast>>
sourcesVars == <<expandedSources, prevExpanded, lastToggled>>
modalVars == <<showFeedbackModal, feedbackText, selectedMessageIndex, modalEvent>>
settingsVars == <<openAiKey, tavilyKey, settingsMessage, settingsError, savedKeys,
                  storedOpenAi, storedTavily, validations, lastValidation>>
documentsVars ==
  <<documents, docsLoading, remoteDocs, lists, deletes, lastDelete, listFailed>>
vars == <<validateVars, uploadVars, chatVars, roundTripVars, feedbackVars, sourcesVars,
          modalVars, settingsVars, documentsVars>>

\* what the handlers of one page or function leave alone
notValidateVars ==
  <<uploadVars, chatVars, roundTripVars, feedbackVars, sourcesVars, settingsVars,
    documentsVars, modalVars>>
notUploadVars ==
  <<validateVars, chatVars, roundTripVars, feedbackVars, sourcesVars, settingsVars,
    documentsVars, modalVars>>
notChatPageVars ==
  <<validateVars, uploadVars, roundTripVars, feedbackVars, settingsVars, documentsVars>>
notChatVars == <<notChatPageVars, sourcesVars, modalVars>>
notRoundTripVars ==
  <<validateVars, uploadVars, chatVars, feedbackVars, sourcesVars, settingsVars,
    documentsVars, modalVars>>
notFeedbackVars ==
  <<validateVars, uploadVars, chatVars, roundTripVars, sourcesVars, settingsVars,
    documentsVars, modalVars>>
notSettingsVars ==
  <<validateVars, uploadVars, chatVars, roundTripVars, feedbackVars, sourcesVars,
    documentsVars, modalVars>>
\* what the handlers of the document list leave alone: all but the cache,
\* its requests and `message`
notDocumentsVars ==
  <<validateVars, chatVars, roundTripVars, feedbackVars, sourcesVars, settingsVars,
    modalVars, files, uploading, uploadProgress, chunksProcessed, selectedFiles,
    changeTick, runs, ended>>

(***************************************************************************)
(* Partial maps ({[key: string]: number}).                                 *)
(***************************************************************************)
EmptyMap == <<>>

\* {...prev, [key]: value}
Put(m, k, v) == [x \in (DOMAIN m) \cup {k} |-> IF x = k THEN v ELSE m[x]]

Has(m, k) == k \in DOMAIN m

(***************************************************************************)
(* Files the user can pick on the Upload page.                             *)
(***************************************************************************)
MB == 1024 * 1024

File(name, size) == [name |-> name, size |-> size]

FileA == File(<<"a", ".", "p", "d", "f">>, 10 * MB)
FileB == File(<<"b", ".", "e", "x", "e">>, 1 * MB)
FileC == File(<<"c", ".", "m", "d">>, 1 * MB)
FileD == File(<<"d", ".", "T", "X", "T">>, 2 * MB)
FileE == File(<<"e", ".", "p", "d", "f">>, 60 * MB)

\* The FileLists a change event brings: files of distinct names, in the
\* order the picker hands them (an empty list when the dialog is cancelled).
Selections ==
  { <<>>,
    <<FileB>>,
    <<FileA, FileB>>,
    <<FileE, FileC>>,
    <<FileA, FileC, FileD>> }

ChunkCounts == {3, 7}

(***************************************************************************)
(* handleFileChange (lines 82-109).                                        *)
(***************************************************************************)
\* lines 84-94: the files validateFile accepts, and one error line for
\* each of the others, both in selection order
ValidFiles(sel) == LET Ok(f) == validateFile(f) = Null IN SelectSeq(sel, Ok)

ErrorLines(sel) ==
  LET Bad(f) == validateFile(f) # Null
      bad == SelectSeq(sel, Bad)
  IN  [i \in 1..Len(bad) |-> <<validateFile(bad[i]), bad[i].name>>]

\* A line of `message` is a pair: a text, and the file name the text is
\* about (<<>> when it is about none)
PlainLine(text) == <<text, <<>> >>

SkippedMessage == <<PlainLine("Some files will be skipped due to errors.")>>

MutFilesAfterChange(sel, prev) == sel

\* the value of `files` after the handler: lines 96-104
FilesAfterChange(sel, prev) ==
  IF ErrorLines(sel) # <<>> /\ ValidFiles(sel) = <<>> THEN prev ELSE ValidFiles(sel)

handleFileChange(sel) ==
  /\ changeTick' = ~changeTick
  /\ selectedFiles' = sel
  /\ files' = FilesAfterChange(sel, files)
  /\ IF ErrorLines(sel) # <<>> /\ ValidFiles(sel) = <<>>
     THEN \* lines 96-101: every file rejected, the handler returns early
          /\ message' = ErrorLines(sel)
          /\ UNCHANGED chunksProcessed
     ELSE /\ message' = IF ValidFiles(sel) = <<>> THEN message
                        ELSE IF ErrorLines(sel) # <<>> THEN SkippedMessage
                        ELSE <<>>
          /\ chunksProcessed' = EmptyMap
  /\ UNCHANGED <<uploading, uploadProgress, runs, ended, notUploadVars>>

(***************************************************************************)
(* uploadDocument (api.ts lines 33-47) and the /upload request in flight.  *)
(***************************************************************************)
\* Math.round for a non-negative quotient n / d
Round(n, d) == (2 * n + d) \div (2 * d)

MutProgressPercent(loaded, total) == Round((total - loaded) * 100, total)

\* api.ts line 42
ProgressPercent(loaded, total) == Round(loaded * 100, total)

\* The upload of one file is TransferUnits long.  progressEvent.total is
\* that length, or absent (0 here) when the length is not computable.
Totals == {0, TransferUnits}

\* A call of handleUpload that has just issued the request for position idx
Issue(run, idx, total) ==
  [run EXCEPT !.issued = Append(@, idx), !.total = total, !.loaded = 0]

\* ... and whose request for position idx has just settled
Settle(run, idx) ==
  [run EXCEPT !.settled = Append(@, idx), !.total = 0, !.loaded = 0]

NewRun(batch) ==
  [batch |-> batch, issued |-> <<>>, settled |-> <<>>, total |-> 0, loaded |-> 0,
   status |-> "active"]

NoRun == [NewRun(<<>>) EXCEPT !.status = "none"]

\* the position whose request run r awaits, and its file
Current(r) == runs[r].issued[Len(runs[r].issued)]
CurrentFile(r) == runs[r].batch[Current(r)]

\* the sequence s without its element at position r
Without(s, r) == [i \in 1..(Len(s) - 1) |-> IF i < r THEN s[i] ELSE s[i + 1]]

\* the /upload requests in flight: issued and not settled
InFlight ==
  UNION {{<<r, i>> : i \in Range(runs[r].issued) \ Range(runs[r].settled)} : r \in DOMAIN runs}

UploadingLine(file) == <<"Uploading", file.name>>

(***************************************************************************)
(* handleUpload (lines 111-162).                                           *)
(***************************************************************************)
MutUploadButtonEnabled == files # <<>>

\* lines 244-250: disabled={files.length === 0 || uploading}
UploadButtonEnabled == files # <<>> /\ ~uploading

\* lines 111-127: the click, up to the first await
handleUpload ==
  /\ UploadButtonEnabled
  /\ Len(runs) < MaxRuns
  /\ files # <<>>
  /\ uploading' = TRUE
  /\ message' = <<UploadingLine(files[1])>>
  /\ uploadProgress' = EmptyMap
  /\ chunksProcessed' = EmptyMap
  /\ \E total \in Totals : runs' = Append(runs, Issue(NewRun(files), 1, total))
  /\ ended' = NoRun
  /\ UNCHANGED <<files, selectedFiles, changeTick, notUploadVars>>

\* lines 122-127 with api.ts lines 40-45: one progress event of the
\* request in flight; loaded never decreases during one request
onUploadProgress(r, loaded) ==
  /\ loaded >= runs[r].loaded
  /\ runs' = [runs EXCEPT ![r].loaded = loaded]
  /\ uploadProgress' =
       IF runs[r].total # 0
       THEN Put(uploadProgress, CurrentFile(r).name, ProgressPercent(loaded, runs[r].total))
       ELSE uploadProgress
  /\ UNCHANGED <<files, uploading, message, chunksProcessed, selectedFiles, changeTick,
                 ended, notUploadVars>>

MutProgressAfterBatch(prev) == prev

\* line 160, in finally: setUploadProgress({})
ProgressAfterBatch(prev) == EmptyMap

\* lines 129-141 and 158-161: the request of run r succeeds with `chunks`
UploadSucceeds(r, chunks) ==
  /\ chunksProcessed' = Put(chunksProcessed, CurrentFile(r).name, chunks)
  /\ LET settled == Settle(runs[r], Current(r))
     IN  IF Current(r) < Len(runs[r].batch)
         THEN \* the loop goes on: the next file's request is issued
              /\ message' = Append(message, UploadingLine(runs[r].batch[Current(r) + 1]))
              /\ \E total \in Totals :
                   runs' = [runs EXCEPT ![r] = Issue(settled, Current(r) + 1, total)]
              /\ UNCHANGED <<files, uploading, uploadProgress, ended>>
         ELSE \* the loop is over: lines 136-141, then finally
              /\ message' = <<PlainLine("All files uploaded successfully!")>>
              /\ files' = <<>>
              /\ uploading' = FALSE
              /\ uploadProgress' = ProgressAfterBatch(uploadProgress)
              /\ runs' = Without(runs, r)
              /\ ended' = [settled EXCEPT !.status = "completed"]
  /\ UNCHANGED <<selectedFiles, changeTick, notUploadVars>>

\* What a failed request rejects with: an axios error
UploadErrors ==
  { [response |-> TRUE, detail |-> "Unsupported document", message |-> "", request |-> TRUE],
    [response |-> TRUE, detail |-> "", message |-> "upload rejected", request |-> TRUE],
    [response |-> TRUE, detail |-> "", message |-> "", request |-> TRUE],
    [response |-> FALSE, detail |-> "", message |-> "Network Error", request |-> TRUE],
    [response |-> FALSE, detail |-> "", message |-> "Request setup failed", request |-> FALSE] }

DefaultUploadError == "Error uploading file. Please try again."

\* lines 143-154
UploadErrorMessage(error) ==
  IF error.response
  THEN IF error.detail # "" THEN error.detail
       ELSE IF error.message # "" THEN error.message
       ELSE DefaultUploadError
  ELSE IF error.request THEN "Server not responding. Please try again later."
  ELSE IF error.message # "" THEN error.message
  ELSE DefaultUploadError

UploadErrorMessages == {<<PlainLine(UploadErrorMessage(e))>> : e \in UploadErrors}

\* lines 142-161: the request of run r fails; the loop is left
UploadFails(r, error) ==
  /\ message' = <<PlainLine(UploadErrorMessage(error))>>
  /\ uploading' = FALSE
  /\ uploadProgress' = ProgressAfterBatch(uploadProgress)
  /\ runs' = Without(runs, r)
  /\ ended' = [Settle(runs[r], Current(r)) EXCEPT !.status = "aborted"]
  /\ UNCHANGED <<files, chunksProcessed, selectedFiles, changeTick, notUploadVars>>

(***************************************************************************)
(* Chat page: messages and their JSON text (part_002 lines 5-26, 34-49).   *)
(* A text is a sequence of string pieces.  A message is a record that has  *)
(* the fields role and content, and sources and feedback when present.     *)
(***************************************************************************)
LANGUAGES == <<"English", "Marathi", "Hindi">>

UserMessage(question) == [role |-> "user", content |-> question]

MutAssistantMessage(answer, sources) == [role |-> "assistant", content |-> answer]

\* lines 74-78
AssistantMessage(answer, sources) ==
  [role |-> "assistant", content |-> answer, sources |-> sources]

\* lines 91-94
ErrorMessage(text) == [role |-> "assistant", content |-> text]

\* lines 113-116: {...message, feedback}
WithFeedback(msg, feedback) ==
  [k \in (DOMAIN msg) \cup {"feedback"} |-> IF k = "feedback" THEN feedback ELSE msg[k]]

\* JSON values: a string, an array, an object with its members in order
JStr(text) == <<"string", text>>
JArr(items) == <<"array", items>>
JObj(members) == <<"object", members>>

HasMember(obj, key) == \E i \in 1..Len(obj[2]) : obj[2][i][1] = key
Member(obj, key) == obj[2][CHOOSE i \in 1..Len(obj[2]) : obj[2][i][1] = key][2]

\* JSON.stringify of the parts of a message; a field that is absent
\* yields no member
MutStringifyCitation(c) == JObj(<< <<"url", JStr(c.url)>> >>)

StringifyCitation(c) ==
  JObj(<< <<"url", JStr(c.url)>> >>
       \o (IF "title" \in DOMAIN c THEN << <<"title", JStr(c.title)>> >> ELSE <<>>))

StringifyDocument(d) ==
  JObj(<< <<"source", JStr(d.source)>>, <<"preview", JStr(d.preview)>> >>)

StringifySources(s) ==
  JObj(<< <<"type", JStr(<<s.type>>)>>,
          <<"documents", JArr([i \in 1..Len(s.documents) |-> StringifyDocument(s.documents[i])])>>,
          <<"web", JArr([i \in 1..Len(s.web) |-> StringifyCitation(s.web[i])])>> >>)

StringifyMessage(m) ==
  JObj(<< <<"role", JStr(<<m.role>>)>>, <<"content", JStr(m.content)>> >>
       \o (IF "sources" \in DOMAIN m THEN << <<"sources", StringifySources(m.sources)>> >> ELSE <<>>)
       \o (IF "feedback" \in DOMAIN m THEN << <<"feedback", JStr(<<m.feedback>>)>> >> ELSE <<>>))

\* line 48: JSON.stringify(messages)
Stringify(msgs) == JArr([i \in 1..Len(msgs) |-> StringifyMessage(msgs[i])])

\* JSON.parse of such a text
ParseCitation(o) ==
  IF HasMember(o, "title")
  THEN [url |-> Member(o, "url")[2], title |-> Member(o, "title")[2]]
  ELSE [url |-> Member(o, "url")[2]]

ParseDocument(o) == [source |-> Member(o, "source")[2], preview |-> Member(o, "preview")[2]]

ParseSources(o) ==
  LET docs == Member(o, "documents")[2]
      web == Member(o, "web")[2]
  IN  [type |-> Member(o, "type")[2][1],
       documents |-> [i \in 1..Len(docs) |-> ParseDocument(docs[i])],
       web |-> [i \in 1..Len(web) |-> ParseCitation(web[i])]]

ParseMessage(o) ==
  LET base == [role |-> Member(o, "role")[2][1], content |-> Member(o, "content")[2]]
      withSources ==
        IF HasMember(o, "sources")
        THEN [role |-> base.role, content |-> base.content,
              sources |-> ParseSources(Member(o, "sources"))]
        ELSE base
  IN  IF HasMember(o, "feedback")
      THEN WithFeedback(withSources, Member(o, "feedback")[2][1])
      ELSE withSources

Parse(text) == [i \in 1..Len(text[2]) |-> ParseMessage(text[2][i])]

\* lines 34-37: the initial value of `messages`
SavedMessages(store) == IF store # <<>> THEN Parse(store[1]) ELSE <<>>

MutPersistEffect(prev, msgs) == prev

\* lines 47-49: the effect that runs when `messages` has changed; prev is
\* the item before it runs
PersistEffect(prev, msgs) == <<Stringify(msgs)>>

(***************************************************************************)
(* What the user types and what /chat answers.                             *)
(***************************************************************************)
InputTexts == { <<>>, <<" ">>, <<"q">>, <<" ", "q", " ">>, <<"q", " ", "r">> }

\* String.prototype.trim
RECURSIVE TrimStart(_)
TrimStart(s) == IF s # <<>> /\ s[1] = " " THEN TrimStart(Tail(s)) ELSE s

RECURSIVE TrimEnd(_)
TrimEnd(s) == IF s # <<>> /\ s[Len(s)] = " " THEN TrimEnd(SubSeq(s, 1, Len(s) - 1)) ELSE s

Trim(s) == TrimEnd(TrimStart(s))

DocumentsSources ==
  [type |-> "documents",
   documents |-> << [source |-> <<"docs/handbook.pdf">>, preview |-> <<"Refunds within 30 days">>] >>,
   web |-> <<>>]

WebSources ==
  [type |-> "web",
   documents |-> <<>>,
   web |-> << [url |-> <<"https://example.com/a">>, title |-> <<"Policy">>],
              [url |-> <<"https://example.com/b">>] >>]

ChatResponses ==
  {[answer |-> <<"The refund policy is ...">>, sources |-> s] : s \in {DocumentsSources, WebSources}}

\* What a failed /chat request rejects with: status 0 and no detail when
\* no response was received
ChatErrors ==
  { [response |-> TRUE, status |-> 401, detail |-> <<"Missing API keys">>],
    [response |-> TRUE, status |-> 500, detail |-> <<"Index not ready">>],
    [response |-> TRUE, status |-> 500, detail |-> <<>>],
    [response |-> FALSE, status |-> 0, detail |-> <<>>] }

DefaultChatError == <<"Sorry, I encountered an error. Please try again.">>
KeysChatError == <<"Please add your API keys in the Settings page first.">>

\* lines 80-89
ChatErrorMessage(error) ==
  IF error.response
  THEN IF error.status = 401 THEN KeysChatError
       ELSE IF error.detail # <<>> THEN error.detail
       ELSE DefaultChatError
  ELSE DefaultChatError

NoSettled == [ok |-> FALSE, answer |-> <<>>, sources |-> <<>>, error |-> <<>>]

(***************************************************************************)
(* Chat handlers.                                                          *)
(***************************************************************************)
\* lines 289-295: onChange of the text input, disabled while loading
setInput(text) ==
  /\ ~loading
  /\ input' = text
  /\ UNCHANGED <<messages, loading, language, chatStore, asks, settledChat,
                 notChatVars>>

\* lines 198-203
setLanguage(lang) ==
  /\ language' = lang
  /\ UNCHANGED <<messages, input, loading, chatStore, asks, settledChat,
                 notChatVars>>

\* line 60: if (!input.trim() || loading) return
SubmitAccepted == Trim(input) # <<>> /\ ~loading

\* line 64: setLoading(true)
LoadingAfterSubmit == TRUE

MutLoadingAfterAsk == loading

\* line 97, in finally: setLoading(false)
LoadingAfterAsk == FALSE

\* lines 58-70: the submit, up to the await
handleSubmit ==
  /\ SubmitAccepted
  /\ Len(messages) + 2 <= MaxMessages
  /\ LET question == Trim(input)
     IN  /\ input' = <<>>
         /\ loading' = LoadingAfterSubmit
         /\ messages' = Append(messages, UserMessage(question))
         /\ asks' = Append(asks, [question |-> question, language |-> language])
  /\ chatStore' = PersistEffect(chatStore, messages')
  /\ UNCHANGED <<language, settledChat, notChatVars>>

\* lines 70-78 and 96-98: the request of ask a succeeds
ChatSucceeds(a, response) ==
  /\ messages' = Append(messages, AssistantMessage(response.answer, response.sources))
  /\ loading' = LoadingAfterAsk
  /\ asks' = Without(asks, a)
  /\ chatStore' = PersistEffect(chatStore, messages')
  /\ settledChat' = [ok |-> TRUE, answer |-> response.answer, sources |-> <<response.sources>>,
                     error |-> <<>>]
  /\ UNCHANGED <<input, language, notChatVars>>

\* lines 79-98: the request of ask a fails
ChatFails(a, error) ==
  /\ messages' = Append(messages, ErrorMessage(ChatErrorMessage(error)))
  /\ loading' = LoadingAfterAsk
  /\ asks' = Without(asks, a)
  /\ chatStore' = PersistEffect(chatStore, messages')
  /\ settledChat' = [ok |-> FALSE, answer |-> <<>>, sources |-> <<>>, error |-> <<error>>]
  /\ UNCHANGED <<input, language, notChatVars>>

\* lines 178-185: the Clear Chat button is rendered while messages exist
ClearShown == Len(messages) > 0

MutClearedMessages(prev) == SubSeq(prev, 1, Len(prev) - 1)

\* line 103: setMessages([])
ClearedMessages(prev) == <<>>

\* lines 101-107, the confirm dialog accepted: the item is removed, then
\* the effect of lines 47-49 runs for the new value of `messages`
handleClearChat ==
  /\ ClearShown
  /\ messages' = ClearedMessages(messages)
  /\ chatStore' = PersistEffect(<<>>, messages')
  /\ expandedSources' = EmptyMap
  /\ prevExpanded' = EmptyMap
  /\ lastToggled' = 0
  /\ UNCHANGED <<input, loading, language, asks, settledChat, modalVars, notChatPageVars>>

\* lines 110-119: the value of `messages` after the call.  Positions are
\* counted from 1 here; position Len(prev) + 1 is the array index
\* prev.length, where updated[messageIndex] is undefined and the
\* assignment stores {feedback} as a new last element
FeedbackUpdate(prev, messageIndex, feedback) ==
  IF feedback = "thumbsUp"
  THEN IF messageIndex \in DOMAIN prev
       THEN [prev EXCEPT ![messageIndex] = WithFeedback(@, feedback)]
       ELSE Append(prev, [feedback |-> feedback])
  ELSE prev

\* lines 109-120
handleFeedback(messageIndex, feedback) ==
  /\ messages' = FeedbackUpdate(messages, messageIndex, feedback)
  /\ chatStore' = IF messages' # messages THEN PersistEffect(chatStore, messages') ELSE chatStore
  /\ UNCHANGED <<input, loading, language, asks, settledChat, notChatVars>>

MutFeedbackShown(msg) == TRUE

\* line 223: {msg.role === 'assistant' && (<div className="message-actions">
FeedbackShown(msg) == msg.role = "assistant"

\* lines 223-232: the Helpful button of an assistant message
ThumbsUp(idx) ==
  /\ FeedbackShown(messages[idx])
  /\ handleFeedback(idx, "thumbsUp")

\* the flag `expandedSources[idx] &&` reads (line 257): an absent key is
\* undefined, which is falsy
Expanded(m, idx) == Has(m, idx) /\ m[idx]

MutToggledFlag(prev, idx) == TRUE

\* line 54: !prev[idx]
ToggledFlag(prev, idx) == ~Expanded(prev, idx)

\* lines 51-56
toggleSources(idx) ==
  /\ expandedSources' = Put(expandedSources, idx, ToggledFlag(expandedSources, idx))
  /\ prevExpanded' = expandedSources
  /\ lastToggled' = idx
  /\ UNCHANGED <<chatVars, modalVars, notChatPageVars>>

(***************************************************************************)
(* The feedback modal (part_002 lines 41-43, 157-169, 233-241, 307-399).   *)
(* feedbackText is a sequence of pieces: "\n", a reason, or typed text.    *)
(***************************************************************************)
NoSelection == 0

\* three of the five reasons of lines 313-382; every checkbox has the same
\* handler
Reasons == {"Shouldn't have used Memory", "Not factually correct", "Don't like the style"}

\* what the user types into the textarea
TypedTexts == { <<>>, <<"too vague">>, <<"Not factually correct">> }

\* String.prototype.includes for a reason
TextIncludes(text, reason) == \E i \in 1..Len(text) : text[i] = reason

\* prev.replace("\n" + reason, ""): the first occurrence is removed
TextWithout(text, reason) ==
  LET At(i) == text[i] = "\n" /\ text[i + 1] = reason
      found == {i \in 1..(Len(text) - 1) : At(i)}
  IN  IF found = {} THEN text
      ELSE LET first == CHOOSE i \in found : \A j \in found : i <= j
           IN  SubSeq(text, 1, first - 1) \o SubSeq(text, first + 2, Len(text))

\* lines 233-241: the Not helpful button of an assistant message
ThumbsDown(idx) ==
  /\ FeedbackShown(messages[idx])
  /\ selectedMessageIndex' = idx
  /\ showFeedbackModal' = TRUE
  /\ modalEvent' = "open"
  /\ UNCHANGED <<feedbackText, chatVars, sourcesVars, notChatPageVars>>

\* lines 314-324 (and the four like them): onChange of a checkbox, whose
\* new state is the opposite of `checked={feedbackText.includes(reason)}`
toggleReason(reason) ==
  /\ showFeedbackModal
  /\ feedbackText' = IF ~TextIncludes(feedbackText, reason)
                     THEN feedbackText \o <<"\n", reason>>
                     ELSE TextWithout(feedbackText, reason)
  /\ modalEvent' = "reason"
  /\ UNCHANGED <<showFeedbackModal, selectedMessageIndex, chatVars, sourcesVars,
                 notChatPageVars>>

\* lines 384-389: onChange of the textarea
setFeedbackText(text) ==
  /\ showFeedbackModal
  /\ feedbackText' = text
  /\ modalEvent' = "text"
  /\ UNCHANGED <<showFeedbackModal, selectedMessageIndex, chatVars, sourcesVars,
                 notChatPageVars>>

MutTextAfterClose(prev) == prev

\* lines 162 and 393: setFeedbackText('')
TextAfterClose(prev) == <<>>

\* lines 391-395: the Cancel button of the modal
CancelFeedback ==
  /\ showFeedbackModal
  /\ showFeedbackModal' = FALSE
  /\ feedbackText' = TextAfterClose(feedbackText)
  /\ selectedMessageIndex' = NoSelection
  /\ modalEvent' = "cancel"
  /\ UNCHANGED <<chatVars, sourcesVars, notChatPageVars>>

\* lines 157-169, called by the Submit button of the modal (line 396)
handleFeedbackSubmit ==
  /\ showFeedbackModal
  /\ showFeedbackModal' = FALSE
  /\ feedbackText' = TextAfterClose(feedbackText)
  /\ selectedMessageIndex' = NoSelection
  /\ modalEvent' = "submit"
  /\ UNCHANGED <<chatVars, sourcesVars, notChatPageVars>>

\* The page is loaded again: the requests in flight end with the page, the
\* component is constructed anew (lines 34-44) and its effect runs (47-49)
Reload ==
  /\ messages' = SavedMessages(chatStore)
  /\ input' = <<>>
  /\ loading' = FALSE
  /\ language' = "English"
  /\ asks' = <<>>
  /\ chatStore' = PersistEffect(chatStore, messages')
  /\ expandedSources' = EmptyMap
  /\ prevExpanded' = EmptyMap
  /\ lastToggled' = 0
  /\ showFeedbackModal' = FALSE
  /\ feedbackText' = <<>>
  /\ selectedMessageIndex' = NoSelection
  /\ modalEvent' = "none"
  /\ UNCHANGED <<settledChat, notChatPageVars>>

InitChat ==
  /\ messages = SavedMessages(<<>>)
  /\ input = <<>>
  /\ loading = FALSE
  /\ language = "English"
  /\ asks = <<>>
  /\ chatStore = PersistEffect(<<>>, messages)
  /\ settledChat = NoSettled

\* the component mounted over a transcript persisted earlier (lines 34-49)
SourcesMessages ==
  { [role |-> "user", content |-> <<"q">>],
    [role |-> "assistant", content |-> <<"The refund policy is ...">>, sources |-> DocumentsSources],
    [role |-> "assistant", content |-> <<"The refund policy is ...">>, sources |-> WebSources] }

InitChatRestored ==
  /\ \E saved \in SeqsUpTo(SourcesMessages, MaxTranscript) :
       /\ messages = SavedMessages(<<Stringify(saved)>>)
       /\ chatStore = PersistEffect(<<Stringify(saved)>>, messages)
  /\ input = <<>>
  /\ loading = FALSE
  /\ language = "English"
  /\ asks = <<>>
  /\ settledChat = NoSettled

InitSourcesIdle ==
  /\ expandedSources = EmptyMap
  /\ prevExpanded = EmptyMap
  /\ lastToggled = 0

\* lines 41-43
InitModal ==
  /\ showFeedbackModal = FALSE
  /\ feedbackText = <<>>
  /\ selectedMessageIndex = NoSelection
  /\ modalEvent = "none"

NextSources ==
  \/ \E idx \in DOMAIN messages : toggleSources(idx)
  \/ handleClearChat
  \/ Reload

\* the feedback controls of a restored transcript
NextModal ==
  \/ \E idx \in DOMAIN messages : ThumbsDown(idx)
  \/ \E reason \in Reasons : toggleReason(reason)
  \/ \E text \in TypedTexts : setFeedbackText(text)
  \/ CancelFeedback
  \/ handleFeedbackSubmit
  \/ \E idx \in DOMAIN messages : ThumbsUp(idx)
  \/ handleClearChat
  \/ Reload

NextChat ==
  \/ \E text \in InputTexts : setInput(text)
  \/ \E lang \in Range(LANGUAGES) : setLanguage(lang)
  \/ handleSubmit
  \/ \E a \in DOMAIN asks, response \in ChatResponses : ChatSucceeds(a, response)
  \/ \E a \in DOMAIN asks, error \in ChatErrors : ChatFails(a, error)
  \/ handleClearChat
  \/ \E idx \in DOMAIN messages : ThumbsUp(idx)
  \/ Reload

(***************************************************************************)
(* The persisted transcript as a function of the transcript: what the      *)
(* effect of lines 47-49 writes, read back by the initializer of lines     *)
(* 34-37 (specification SpecRoundTrip).                                    *)
(***************************************************************************)
\* the values of type Message (lines 5-26) over two texts
CandidateSources == {DocumentsSources, WebSources}

CandidateMessages ==
  LET Base == {[role |-> r, content |-> c] :
                 r \in {"user", "assistant"}, c \in {<<>>, <<"q", " ", "r">>}}
      Sourced == Base \cup
                 {[role |-> m.role, content |-> m.content, sources |-> src] :
                    m \in Base, src \in CandidateSources}
  IN  Sourced \cup {WithFeedback(m, f) : m \in Sourced, f \in {"thumbsUp", "thumbsDown"}}

CandidateTranscripts == SeqsUpTo(CandidateMessages, MaxTranscript)

InitRoundTrip ==
  /\ rtMessages \in CandidateTranscripts
  /\ rtRestored = <<>>
  /\ rtDone = FALSE

InitRoundTripIdle ==
  /\ rtMessages = <<>>
  /\ rtRestored = <<>>
  /\ rtDone = TRUE

\* lines 48 and 35-36: setItem(JSON.stringify(messages)), then
\* JSON.parse(getItem(...))
RoundTrip ==
  /\ ~rtDone
  /\ rtRestored' = SavedMessages(PersistEffect(<<>>, rtMessages))
  /\ rtDone' = TRUE
  /\ UNCHANGED <<rtMessages, notRoundTripVars>>

(***************************************************************************)
(* handleFeedback as a function of the transcript and its arguments        *)
(* (specification SpecFeedback).                                           *)
(***************************************************************************)
FeedbackValues == {"thumbsUp", "thumbsDown"}

FeedbackMessages ==
  { [role |-> "user", content |-> <<"q">>],
    [role |-> "assistant", content |-> <<"The refund policy is ...">>],
    [role |-> "assistant", content |-> <<"The refund policy is ...">>, sources |-> WebSources],
    [role |-> "assistant", content |-> DefaultChatError, feedback |-> "thumbsDown"] }

FeedbackTranscripts == SeqsUpTo(FeedbackMessages, MaxTranscript)

NoFeedbackCall == [index |-> 0, value |-> "none"]

InitFeedback ==
  /\ fbMessages \in FeedbackTranscripts
  /\ fbBefore = fbMessages
  /\ fbLast = NoFeedbackCall

InitFeedbackIdle ==
  /\ fbMessages = <<>>
  /\ fbBefore = <<>>
  /\ fbLast = NoFeedbackCall

\* one call handleFeedback(messageIndex, feedback)
FeedbackCall(messageIndex, feedback) ==
  /\ Len(fbMessages) <= MaxTranscript
  /\ fbBefore' = fbMessages
  /\ fbMessages' = FeedbackUpdate(fbMessages, messageIndex, feedback)
  /\ fbLast' = [index |-> messageIndex, value |-> feedback]
  /\ UNCHANGED notFeedbackVars

NextFeedback ==
  \E messageIndex \in 1..(Len(fbMessages) + 1), feedback \in FeedbackValues :
    FeedbackCall(messageIndex, feedback)

(***************************************************************************)
(* Settings page (part_002 lines 406-544; specification SpecSettings).     *)
(***************************************************************************)
OpenAiInputs == { <<>>, <<"a">>, <<" ", "b", " ">> }
TavilyInputs == { <<" ">>, <<"t">>, <<"u", " ">> }

\* How a /validate_keys request settles: with a 2xx response; with another
\* response whose body carries a detail, carries none, or is not JSON; or
\* without a response
ValidationOutcomes == {"ok", "detail", "no detail", "not json", "no response"}

BothKeysError == "Please enter both API keys"
KeysSavedMessage == "API keys validated and saved successfully!"

\* lines 456-459 and 475-476: the text of setError
ValidationErrorMessage(outcome) ==
  CASE outcome = "detail" -> "Invalid Tavily API key"
    [] outcome = "no detail" -> "Failed to validate API keys"
    [] outcome = "not json" -> "Unexpected token < in JSON at position 0"
    [] OTHER -> "Failed to fetch"

\* lines 501-521: the key inputs
setOpenAiKey(text) ==
  /\ openAiKey' = text
  /\ UNCHANGED <<tavilyKey, settingsMessage, settingsError, savedKeys, storedOpenAi,
                 storedTavily, validations, lastValidation, notSettingsVars>>

setTavilyKey(text) ==
  /\ tavilyKey' = text
  /\ UNCHANGED <<openAiKey, settingsMessage, settingsError, savedKeys, storedOpenAi,
                 storedTavily, validations, lastValidation, notSettingsVars>>

MutKeysEntered == Trim(openAiKey) # <<>>

\* line 438: !(!openAiKey.trim() || !tavilyKey.trim())
KeysEntered == Trim(openAiKey) # <<>> /\ Trim(tavilyKey) # <<>>

\* lines 432-454: saveKeys up to the await of fetch
saveKeys ==
  /\ settingsMessage' = ""
  /\ IF ~KeysEntered
     THEN /\ settingsError' = BothKeysError
          /\ UNCHANGED validations
     ELSE /\ Len(validations) < MaxValidations
          /\ settingsError' = ""
          /\ validations' = Append(validations, [openai_key |-> Trim(openAiKey),
                                                 tavily_key |-> Trim(tavilyKey)])
  /\ UNCHANGED <<openAiKey, tavilyKey, savedKeys, storedOpenAi, storedTavily, lastValidation,
                 notSettingsVars>>

MutStoredAfterFailure(prev, key) == <<key>>

\* lines 456-459, 474-477: no setItem on the path of a failed validation
StoredAfterFailure(prev, key) == prev

\* lines 456-477: the request of call v settles
ValidationSettles(v, outcome) ==
  /\ validations' = Without(validations, v)
  /\ lastValidation' = outcome
  /\ IF outcome = "ok"
     THEN /\ storedOpenAi' = <<validations[v].openai_key>>
          /\ storedTavily' = <<validations[v].tavily_key>>
          /\ savedKeys' = [openAi |-> validations[v].openai_key,
                           tavily |-> validations[v].tavily_key]
          /\ settingsMessage' = KeysSavedMessage
          /\ UNCHANGED settingsError
     ELSE /\ storedOpenAi' = StoredAfterFailure(storedOpenAi, validations[v].openai_key)
          /\ storedTavily' = StoredAfterFailure(storedTavily, validations[v].tavily_key)
          /\ settingsError' = ValidationErrorMessage(outcome)
          /\ UNCHANGED <<savedKeys, settingsMessage>>
  /\ UNCHANGED <<openAiKey, tavilyKey, notSettingsVars>>

\* lines 440, 472, 476: the timers that blank the message and the error
MessageTimeout ==
  /\ settingsMessage # ""
  /\ settingsMessage' = ""
  /\ UNCHANGED <<openAiKey, tavilyKey, settingsError, savedKeys, storedOpenAi, storedTavily,
                 validations, lastValidation, notSettingsVars>>

ErrorTimeout ==
  /\ settingsError # ""
  /\ settingsError' = ""
  /\ UNCHANGED <<openAiKey, tavilyKey, settingsMessage, savedKeys, storedOpenAi, storedTavily,
                 validations, lastValidation, notSettingsVars>>

\* lines 416-430: the component mounted over an empty store
InitSettings ==
  /\ openAiKey = <<>>
  /\ tavilyKey = <<>>
  /\ settingsMessage = ""
  /\ settingsError = ""
  /\ storedOpenAi = <<>>
  /\ storedTavily = <<>>
  /\ savedKeys = [openAi |-> <<>>, tavily |-> <<>>]
  /\ validations = <<>>
  /\ lastValidation = "none"

NextSettings ==
  \/ \E text \in OpenAiInputs : setOpenAiKey(text)
  \/ \E text \in TavilyInputs : setTavilyKey(text)
  \/ saveKeys
  \/ \E v \in DOMAIN validations, outcome \in ValidationOutcomes : ValidationSettles(v, outcome)
  \/ MessageTimeout
  \/ ErrorTimeout

(***************************************************************************)
(* Document list of the Upload page (part_000 lines 43-61 and 170-203;     *)
(* specification SpecDocuments).                                           *)
(***************************************************************************)
HandbookDoc == [name |-> <<"handbook.pdf">>, path |-> "docs/handbook.pdf"]
NotesDoc == [name |-> <<"notes.md">>, path |-> "docs/notes.md"]
AllDocuments == <<HandbookDoc, NotesDoc>>

\* response.data.documents of GET /documents when the service holds `paths`
Listing(paths) == LET Held(d) == d.path \in paths IN SelectSeq(AllDocuments, Held)

PathsOf(docs) == {docs[i].path : i \in 1..Len(docs)}

NotServed == [served |-> FALSE, documents |-> <<>>]

\* lines 50-53: loadDocuments up to the await
StartLoad(outstanding) == Append(outstanding, NotServed)

NoDelete == [path |-> "", ok |-> FALSE]

\* the service answers a GET /documents request with what it holds
ServiceLists(l) ==
  /\ ~lists[l].served
  /\ lists' = [lists EXCEPT ![l] = [served |-> TRUE, documents |-> Listing(remoteDocs)]]
  /\ UNCHANGED <<documents, docsLoading, remoteDocs, deletes, lastDelete, listFailed,
                 message, notDocumentsVars>>

\* lines 53-54 and 58-60: the response of a list request arrives
ListSucceeds(l) ==
  /\ lists[l].served
  /\ documents' = lists[l].documents
  /\ docsLoading' = FALSE
  /\ lists' = Without(lists, l)
  /\ UNCHANGED <<remoteDocs, deletes, lastDelete, listFailed, message, notDocumentsVars>>

\* lines 55-60: a list request fails
ListFails(l) ==
  /\ message' = <<PlainLine("Failed to load documents")>>
  /\ docsLoading' = FALSE
  /\ lists' = Without(lists, l)
  /\ listFailed' = TRUE
  /\ UNCHANGED <<documents, remoteDocs, deletes, lastDelete, notDocumentsVars>>

MutDocumentsAfterClick(docs, doc) == LET Other(d) == d.path # doc.path IN SelectSeq(docs, Other)

\* lines 181-184: nothing is set before the await of deleteDocument
DocumentsAfterClick(docs, doc) == docs

\* lines 172-184: the Delete button of a listed document, the confirm
\* dialog accepted; the list is rendered while loading is false
DeleteClicked(i) ==
  /\ ~docsLoading
  /\ Len(deletes) < MaxRequests
  /\ deletes' = Append(deletes, documents[i])
  /\ documents' = DocumentsAfterClick(documents, documents[i])
  /\ UNCHANGED <<docsLoading, remoteDocs, lists, lastDelete, listFailed, message,
                 notDocumentsVars>>

\* lines 184-186 and 50-53: the service has deleted the path and its
\* response arrives; loadDocuments is called and not awaited
DeleteSucceeds(d) ==
  /\ deletes[d].path \in remoteDocs
  /\ Len(lists) < MaxRequests
  /\ remoteDocs' = remoteDocs \ {deletes[d].path}
  /\ message' = << <<"Successfully deleted", deletes[d].name>> >>
  /\ docsLoading' = TRUE
  /\ lists' = StartLoad(lists)
  /\ deletes' = Without(deletes, d)
  /\ lastDelete' = [path |-> deletes[d].path, ok |-> TRUE]
  /\ listFailed' = (lists # <<>> /\ listFailed)
  /\ UNCHANGED <<documents, notDocumentsVars>>

\* lines 187-190: the DELETE request fails (a response that is not 2xx, or
\* none)
DeleteFails(d) ==
  /\ message' = << <<"Error deleting", deletes[d].name>> >>
  /\ deletes' = Without(deletes, d)
  /\ lastDelete' = [path |-> deletes[d].path, ok |-> FALSE]
  /\ UNCHANGED <<documents, docsLoading, remoteDocs, lists, listFailed, notDocumentsVars>>

\* lines 43-48: the state before the component is mounted over a service
\* that holds documents
InitDocumentsIdle ==
  /\ documents = <<>>
  /\ docsLoading = TRUE
  /\ remoteDocs = PathsOf(AllDocuments)
  /\ lists = <<>>
  /\ deletes = <<>>
  /\ lastDelete = NoDelete
  /\ listFailed = FALSE

\* lines 43-53: the component mounted, its effect has called loadDocuments
InitDocuments ==
  /\ documents = <<>>
  /\ docsLoading = TRUE
  /\ remoteDocs = PathsOf(AllDocuments)
  /\ lists = StartLoad(<<>>)
  /\ deletes = <<>>
  /\ lastDelete = NoDelete
  /\ listFailed = FALSE

NextDocuments ==
  \/ \E l \in DOMAIN lists : ServiceLists(l)
  \/ \E l \in DOMAIN lists : ListSucceeds(l)
  \/ \E l \in DOMAIN lists : ListFails(l)
  \/ \E i \in DOMAIN documents : DeleteClicked(i)
  \/ \E d \in DOMAIN deletes : DeleteSucceeds(d)
  \/ \E d \in DOMAIN deletes : DeleteFails(d)

(***************************************************************************)
(* validateFile as a function of its input: every candidate file.          *)
(***************************************************************************)
NameChars == {"m", "d", "M", ".", "x"}

CandidateNames == SeqsUpTo(NameChars, MaxNameLen) \ {<<>>}

CandidateSizes == {0, MAX_FILE_SIZE, MAX_FILE_SIZE + 1}

Unvalidated == "unvalidated"

InitValidate ==
  /\ vFile \in {File(n, sz) : n \in CandidateNames, sz \in CandidateSizes}
  /\ vResult = Unvalidated

Validate ==
  /\ vResult = Unvalidated
  /\ vResult' = validateFile(vFile)
  /\ UNCHANGED <<vFile, notValidateVars>>

(***************************************************************************)
(* The Upload page for the lifetime of one mounted component.              *)
(***************************************************************************)
InitValidateIdle ==
  /\ vFile = File(<<"a">>, 0)
  /\ vResult = Null

InitUpload ==
  /\ files = <<>>
  /\ uploading = FALSE
  /\ message = <<>>
  /\ uploadProgress = EmptyMap
  /\ chunksProcessed = EmptyMap
  /\ selectedFiles = <<>>
  /\ changeTick = FALSE
  /\ runs = <<>>
  /\ ended = NoRun

Init ==
  /\ InitValidateIdle /\ InitUpload /\ InitChat
  /\ InitRoundTripIdle /\ InitFeedbackIdle /\ InitSourcesIdle /\ InitModal
  /\ InitSettings /\ InitDocumentsIdle

Next ==
  \/ \E sel \in Selections : handleFileChange(sel)
  \/ handleUpload
  \/ \E r \in DOMAIN runs, loaded \in 0..TransferUnits : onUploadProgress(r, loaded)
  \/ \E r \in DOMAIN runs, chunks \in ChunkCounts : UploadSucceeds(r, chunks)
  \/ \E r \in DOMAIN runs, error \in UploadErrors : UploadFails(r, error)

Spec == Init /\ [][Next]_vars

InitOfValidate ==
  /\ InitValidate /\ InitUpload /\ InitChat
  /\ InitRoundTripIdle /\ InitFeedbackIdle /\ InitSourcesIdle /\ InitModal
  /\ InitSettings /\ InitDocumentsIdle

SpecValidate == InitOfValidate /\ [][Validate]_vars

SpecChat == Init /\ [][NextChat]_vars

InitOfRoundTrip ==
  /\ InitValidateIdle /\ InitUpload /\ InitChat
  /\ InitRoundTrip /\ InitFeedbackIdle /\ InitSourcesIdle /\ InitModal
  /\ InitSettings /\ InitDocumentsIdle

SpecRoundTrip == InitOfRoundTrip /\ [][RoundTrip]_vars

InitOfFeedback ==
  /\ InitValidateIdle /\ InitUpload /\ InitChat
  /\ InitRoundTripIdle /\ InitFeedback /\ InitSourcesIdle /\ InitModal
  /\ InitSettings /\ InitDocumentsIdle

SpecFeedback == InitOfFeedback /\ [][NextFeedback]_vars

InitOfSources ==
  /\ InitValidateIdle /\ InitUpload /\ InitChatRestored
  /\ InitRoundTripIdle /\ InitFeedbackIdle /\ InitSourcesIdle /\ InitModal
  /\ InitSettings /\ InitDocumentsIdle

SpecSources == InitOfSources /\ [][NextSources]_vars

\* the Chat page between two page loads
NextChatSession ==
  \/ \E text \in InputTexts : setInput(text)
  \/ \E lang \in Range(LANGUAGES) : setLanguage(lang)
  \/ handleSubmit
  \/ \E a \in DOMAIN asks, response \in ChatResponses : ChatSucceeds(a, response)
  \/ \E a \in DOMAIN asks, error \in ChatErrors : ChatFails(a, error)
  \/ handleClearChat
  \/ \E idx \in DOMAIN messages : ThumbsUp(idx)

SpecChatSession == Init /\ [][NextChatSession]_vars

SpecModal == InitOfSources /\ [][NextModal]_vars

SpecSettings == Init /\ [][NextSettings]_vars

InitOfDocuments ==
  /\ InitValidateIdle /\ InitUpload /\ InitChat
  /\ InitRoundTripIdle /\ InitFeedbackIdle /\ InitSourcesIdle /\ InitModal
  /\ InitSettings /\ InitDocuments

SpecDocuments == InitOfDocuments /\ [][NextDocuments]_vars

(***************************************************************************)
(* Properties of the Upload page.                                          *)
(***************************************************************************)
RunsAndEnded == Range(runs) \cup {ended}

\* C1: at most one /upload request is in flight at any time, and every
\* call of handleUpload has issued its requests in the order of the batch,
\* the request for a position only after the requests for all earlier
\* positions have settled.
C1_OneUploadInFlight ==
  /\ Cardinality(InFlight) <= 1
  /\ \A r \in DOMAIN runs :
       /\ runs[r].issued = [i \in 1..Len(runs[r].issued) |-> i]
       /\ runs[r].settled = [i \in 1..(Len(runs[r].issued) - 1) |-> i]
       /\ Len(runs[r].issued) <= Len(runs[r].batch)

\* the request for position 2 of a batch is in flight, position 1 settled
C1_Witness ==
  \E r \in DOMAIN runs :
    runs[r].issued = <<1, 2>> /\ runs[r].settled = <<1>> /\ InFlight = {<<r, 2>>}

\* C2: when a batch ends because the upload of the file at position k
\* failed, files 1..k-1 each have a recorded chunk count, file k has none,
\* the failure is reported, and no request was issued for files k+1..N.
C2_AbortAtK ==
  [][(Len(runs') < Len(runs) /\ ended'.status = "aborted") =>
       LET k == ended'.settled[Len(ended'.settled)]
           batch == ended'.batch
       IN  /\ \A i \in 1..(k - 1) : Has(chunksProcessed', batch[i].name)
           /\ ~Has(chunksProcessed', batch[k].name)
           /\ message' \in UploadErrorMessages
           /\ \A i \in Range(ended'.issued) : i <= k]_vars

FilesOfBatches == UNION {Range(run.batch) : run \in RunsAndEnded}

Succeeded(run) ==
  IF run.status = "aborted"
  THEN Range(run.settled) \ {run.settled[Len(run.settled)]}
  ELSE Range(run.settled)

AcceptedOf(sel) == LET Accepts(f) == validateFile(f) = Null IN SelectSeq(sel, Accepts)

\* no /upload request is ever issued for a file validateFile rejects
RequestsOnlyForAccepted ==
  \A run \in RunsAndEnded : \A i \in Range(run.issued) : validateFile(run.batch[i]) = Null

\* C6 as stated: after any file selection the pending batch is the accepted
\* subsequence of the selection, also when every file is rejected; a
\* rejected file is never passed to an upload request.
C6_PendingIsAccepted ==
  /\ [][changeTick' # changeTick => files' = AcceptedOf(selectedFiles')]_vars
  /\ []RequestsOnlyForAccepted

\* C6 as amended: the pending batch becomes the accepted subsequence of the
\* selection, except that a selection whose files are all rejected leaves
\* the pending batch as it was; a rejected file is never passed to an
\* upload request.
C6_PendingIsAcceptedOrKept ==
  /\ [][changeTick' # changeTick =>
          files' = IF selectedFiles' # <<>> /\ AcceptedOf(selectedFiles') = <<>>
                   THEN files
                   ELSE AcceptedOf(selectedFiles')]_vars
  /\ []RequestsOnlyForAccepted

\* a selection of rejected files only has left an earlier batch pending
C6_Witness ==
  /\ selectedFiles = <<FileB>>
  /\ files = <<FileA>>

(***************************************************************************)
(* Properties of validateFile.                                             *)
(***************************************************************************)
AllowedExtensions ==
  { <<"p", "d", "f">>, <<"d", "o", "c", "x">>, <<"m", "d">>, <<"h", "t", "m", "l">>,
    <<"t", "x", "t">> }

HasDot(name) == \E i \in 1..Len(name) : name[i] = "."

\* the characters after the last dot of a name that holds a dot
AfterLastDot(name) ==
  LET d == CHOOSE i \in 1..Len(name) : name[i] = "." /\ \A j \in (i + 1)..Len(name) : name[j] # "."
  IN  SubSeq(name, d + 1, Len(name))

\* C5: validateFile accepts exactly the files of at most 50 MiB whose
\* extension, compared case-insensitively, is allowed; a name without a
\* dot has no extension.
C5_AcceptsIffSizeAndExtension ==
  vResult # Unvalidated =>
    ((vResult = Null) <=>
       (/\ vFile.size <= 50 * 1024 * 1024
        /\ HasDot(vFile.name)
        /\ toLowerCase(AfterLastDot(vFile.name)) \in AllowedExtensions))

(***************************************************************************)
(* Chat page properties.                                                   *)
(***************************************************************************)
Last(s) == s[Len(s)]

\* a user message that is not followed by an assistant message
Unanswered ==
  {i \in DOMAIN messages :
     /\ messages[i].role = "user"
     /\ (i = Len(messages) \/ messages[i + 1].role # "assistant")}

\* the step in which an outstanding /chat request settles: its ask ends and
\* one message is appended (a page reload ends the ask and appends nothing)
ChatSettles == Len(asks') < Len(asks) /\ Len(messages') = Len(messages) + 1

\* C7: at most one /chat request is outstanding; while an ask is pending a
\* submit issues no request and appends nothing, and the transcript holds
\* exactly one unanswered user message until that ask resolves.
C7_OneAskOneUnanswered ==
  /\ [](Len(asks) <= 1)
  /\ [][asks # <<>> /\ ~ChatSettles =>
          /\ Len(asks') <= Len(asks)
          /\ Len(messages') <= Len(messages)]_vars
  /\ [](asks # <<>> => Cardinality(Unanswered) = 1)

\* C8: a submit appends the user message with the trimmed question and
\* issues the request; when the request succeeds one assistant message with
\* the response's answer and the response's sources is appended at the end.
\* The pending ask is the only one, and the transcript then ends with that
\* ask's user message unless it was emptied meanwhile, so the messages
\* stand in the order of the requests.
C8_SuccessAppendsAnswer ==
  /\ [][Len(asks') > Len(asks) =>
          /\ asks = <<>>
          /\ asks' = <<[question |-> Trim(input), language |-> language]>>
          /\ messages' = Append(messages, [role |-> "user", content |-> Trim(input)])]_vars
  /\ [][ChatSettles /\ settledChat'.ok =>
          /\ Len(asks) = 1
          /\ messages = <<>> \/ Last(messages) = [role |-> "user", content |-> asks[1].question]
          /\ messages' = Append(messages, [role |-> "assistant",
                                           content |-> settledChat'.answer,
                                           sources |-> settledChat'.sources[1]])]_vars

C8_Witness ==
  /\ settledChat.ok
  /\ Len(messages) = 4
  /\ messages[3] = [role |-> "user", content |-> <<"q", " ", "r">>]
  /\ messages[4] = [role |-> "assistant", content |-> <<"The refund policy is ...">>,
                    sources |-> WebSources]
  /\ messages[2].role = "assistant"
  /\ messages[1] = [role |-> "user", content |-> <<"q">>]

ErrorTexts ==
  {KeysChatError, DefaultChatError} \cup {e.detail : e \in {x \in ChatErrors : x.detail # <<>>}}

\* C9: when the request of an ask fails, exactly one assistant message with
\* an error text and without sources is appended at the end, the handler
\* ends normally with no ask outstanding, and loading is false afterwards, so
\* that a submit with a non-blank input is accepted again.
C9_FailureAppendsErrorMessage ==
  [][ChatSettles /\ ~settledChat'.ok =>
       /\ Len(messages') = Len(messages) + 1
       /\ SubSeq(messages', 1, Len(messages)) = messages
       /\ DOMAIN Last(messages') = {"role", "content"}
       /\ Last(messages').role = "assistant"
       /\ Last(messages').content \in ErrorTexts
       /\ settledChat'.error[1].status = 401 => Last(messages').content = KeysChatError
       /\ messages = <<>> \/ Last(messages) = [role |-> "user", content |-> asks[1].question]
       /\ asks' = <<>>
       /\ loading' = FALSE
       /\ (Trim(input') # <<>>) => SubmitAccepted']_vars

C9_Witness ==
  /\ ~settledChat.ok
  /\ settledChat.error # <<>>
  /\ settledChat.error[1].response = FALSE
  /\ Len(messages) = 2
  /\ messages[1].role = "user"
  /\ messages[2] = [role |-> "assistant", content |-> DefaultChatError]
  /\ ~loading
  /\ asks = <<>>

\* C10: what the item 'chatMessages' deserializes to is the sequence of
\* messages held in memory, after every step of the Chat page.
C10_PersistedEqualsMemory == SavedMessages(chatStore) = messages

C10_Witness ==
  /\ Len(messages) >= 2
  /\ \E i \in DOMAIN messages :
       /\ "feedback" \in DOMAIN messages[i]
       /\ messages[i].sources = WebSources
  /\ chatStore = <<Stringify(messages)>>
  /\ Parse(chatStore[1]) = messages

\* C12: the step that clears the chat leaves the transcript empty and the
\* persisted item restoring to an empty transcript, both at once; and in no
\* state is one of the two empty while the other holds messages.
C12_ClearDiscardsBoth ==
  /\ [][Len(messages') < Len(messages) =>
          /\ messages' = <<>>
          /\ SavedMessages(chatStore') = <<>>]_vars
  /\ []((messages = <<>>) <=> (SavedMessages(chatStore) = <<>>))

\* a transcript that held an answer has been cleared
C12_Witness ==
  /\ settledChat.ok
  /\ messages = <<>>
  /\ chatStore = <<Stringify(<<>>)>>
  /\ asks = <<>>

(***************************************************************************)
(* Persistence round trip.                                                 *)
(***************************************************************************)
\* C11: a transcript written to 'chatMessages' and read back is the same
\* sequence: same length, same order, and every message with the same
\* fields and the same values, for sources of both variants, a web citation
\* with and without title, no sources, and feedback present or absent.
C11_RoundTripIdentity ==
  rtDone =>
    /\ Len(rtRestored) = Len(rtMessages)
    /\ \A i \in DOMAIN rtMessages :
         /\ DOMAIN rtRestored[i] = DOMAIN rtMessages[i]
         /\ rtRestored[i] = rtMessages[i]

C11_Witness ==
  /\ rtDone
  /\ Len(rtMessages) = 2
  /\ rtMessages[1] = [role |-> "user", content |-> <<"q", " ", "r">>]
  /\ DOMAIN rtMessages[2] = {"role", "content", "sources", "feedback"}
  /\ rtMessages[2].sources = WebSources
  /\ rtMessages[2].feedback = "thumbsDown"
  /\ rtRestored = rtMessages

(***************************************************************************)
(* Feedback annotation.                                                    *)
(***************************************************************************)
\* position i of transcript t holds an assistant message
IsAssistantAt(t, i) ==
  i \in DOMAIN t /\ "role" \in DOMAIN t[i] /\ t[i].role = "assistant"

\* C13: a call of handleFeedback whose index does not refer to an assistant
\* message (a user message, or a position outside the transcript) leaves
\* the transcript unchanged.
C13_BadIndexLeavesTranscript ==
  (fbLast # NoFeedbackCall /\ ~IsAssistantAt(fbBefore, fbLast.index)) =>
    fbMessages = fbBefore

\* C14: annotating an assistant message twice with the same value gives the
\* transcript that annotating once gives, and after an annotation with
\* value w the message carries feedback w, whatever it carried before.
C14_IdempotentAndOverwriting ==
  /\ [][(fbLast'.index = fbLast.index /\ fbLast'.value = fbLast.value
          /\ IsAssistantAt(fbMessages, fbLast.index)) =>
         fbMessages' = fbMessages]_vars
  /\ []((fbLast # NoFeedbackCall /\ IsAssistantAt(fbBefore, fbLast.index)) =>
          /\ "feedback" \in DOMAIN fbMessages[fbLast.index]
          /\ fbMessages[fbLast.index].feedback = fbLast.value)

(***************************************************************************)
(* Source expansion.                                                       *)
(***************************************************************************)
Positions == 1..(MaxTranscript + 1)

\* C15: a call of toggleSources changes the expansion flag of no position
\* but its own, and when it follows a call for the same position the flags
\* are what they were before that earlier call, also for a position that
\* had never been toggled.
C15_ToggleTwiceRestores ==
  [][(lastToggled' # 0 /\ sourcesVars' # sourcesVars) =>
       /\ Expanded(expandedSources', lastToggled') = ~Expanded(expandedSources, lastToggled')
       /\ \A j \in Positions \ {lastToggled'} :
            Expanded(expandedSources', j) = Expanded(expandedSources, j)
       /\ lastToggled' = lastToggled =>
            \A j \in Positions : Expanded(expandedSources', j) = Expanded(prevExpanded, j)]_vars

\* position 2 was toggled twice from never toggled, position 1 is expanded
C15_Witness ==
  /\ lastToggled = 2
  /\ Has(expandedSources, 2) /\ ~expandedSources[2]
  /\ Has(prevExpanded, 2) /\ prevExpanded[2]
  /\ Expanded(expandedSources, 1)

(***************************************************************************)
(* Credentials.                                                            *)
(***************************************************************************)
ValidationEnds == Len(validations') < Len(validations)

\* C16: the step in which a /validate_keys request is rejected or fails
\* writes neither key and leaves the persisted pair as it was; the
\* persisted keys change only in the step in which a /validate_keys request
\* succeeds, and then to the keys that request validated.
C16_FailureWritesNothing ==
  /\ [][(ValidationEnds /\ lastValidation' # "ok") =>
          /\ storedOpenAi' = storedOpenAi
          /\ storedTavily' = storedTavily]_vars
  /\ [][(storedOpenAi' # storedOpenAi \/ storedTavily' # storedTavily) =>
          /\ ValidationEnds
          /\ lastValidation' = "ok"
          /\ \E v \in DOMAIN validations :
               /\ storedOpenAi' = <<validations[v].openai_key>>
               /\ storedTavily' = <<validations[v].tavily_key>>]_vars

\* a rejected validation has left an earlier pair in place
C16_Witness ==
  /\ lastValidation = "detail"
  /\ settingsError = "Invalid Tavily API key"
  /\ storedOpenAi = << <<"a">> >>
  /\ storedTavily = << <<"t">> >>
  /\ Trim(tavilyKey) = <<"u">>

\* C17: the persisted keys are both absent, or both present and non-empty,
\* in every state reachable from the empty store.
C17_BothOrNeither ==
  \/ storedOpenAi = <<>> /\ storedTavily = <<>>
  \/ /\ storedOpenAi # <<>> /\ storedTavily # <<>>
     /\ storedOpenAi[1] # <<>> /\ storedTavily[1] # <<>>

\* a second pair has replaced the first
C17_Witness ==
  /\ storedOpenAi = << <<"b">> >>
  /\ storedTavily = << <<"u">> >>
  /\ savedKeys = [openAi |-> <<"b">>, tavily |-> <<"u">>]
  /\ validations # <<>>

NoCredentials == storedOpenAi = <<>> \/ storedTavily = <<>>

\* C20: while no credential pair is persisted no /chat request is
\* outstanding, and saveKeys with a blank key issues no /validate_keys
\* request.
C20_NoRequestWithoutCredentials ==
  /\ [](NoCredentials => asks = <<>>)
  /\ [][~KeysEntered => Len(validations') <= Len(validations)]_vars

(***************************************************************************)
(* Document cache.                                                         *)
(***************************************************************************)
DeleteIssued == Len(deletes') > Len(deletes)
DeleteEnds == Len(deletes') < Len(deletes)
ListEnds == Len(lists') < Len(lists)

\* C18: the step that issues a DELETE request leaves the cache as it is;
\* the step in which a DELETE request fails leaves the cache as it is and
\* reports the error; the cache changes only in the step in which the
\* response of a list request arrives, and then to the listing the service
\* gave.
C18_DeleteNotOptimistic ==
  /\ [][DeleteIssued => documents' = documents]_vars
  /\ [][(DeleteEnds /\ ~lastDelete'.ok) =>
          /\ documents' = documents
          /\ \E d \in DOMAIN deletes : message' = << <<"Error deleting", deletes[d].name>> >>]_vars
  /\ [][documents' # documents =>
          /\ ListEnds
          /\ \E l \in DOMAIN lists : lists[l].served /\ documents' = lists[l].documents]_vars

\* a DELETE request has failed over a cache that lists its document
C18_Witness ==
  /\ lastDelete = [path |-> "docs/notes.md", ok |-> FALSE]
  /\ message = << <<"Error deleting", <<"notes.md">> >> >>
  /\ documents = AllDocuments
  /\ ~docsLoading

\* C19: once a DELETE request has succeeded, the cache does not contain
\* its path.
C19_DeletedLeavesCache ==
  lastDelete.ok => lastDelete.path \notin PathsOf(documents)

(***************************************************************************)
(* Properties of the Upload page: the end of a batch.                      *)
(***************************************************************************)
BatchEnds == Len(runs') < Len(runs)

\* C21: when a call of handleUpload ends, completed or aborted, no file is
\* pending afterwards.
C21_EndedBatchLeavesNothingPending ==
  [][BatchEnds => files' = <<>>]_vars

BatchStarts == Len(runs') > Len(runs)

\* C22: a chunk count that is recorded stays recorded with the same value
\* in every step that does not start a batch.
C22_ChunkCountsKeptUntilNextBatch ==
  [][~BatchStarts =>
       \A n \in DOMAIN chunksProcessed :
         Has(chunksProcessed', n) /\ chunksProcessed'[n] = chunksProcessed[n]]_vars

\* C23: the step in which a batch ends completed issues a GET /documents
\* request.
C23_CompletedBatchIssuesRefresh ==
  [][(BatchEnds /\ ended'.status = "completed") => Len(lists') = Len(lists) + 1]_vars

(***************************************************************************)
(* Properties of the Chat page: the shape of the transcript.               *)
(***************************************************************************)
\* C24: no message of role user carries sources or feedback.
C24_UserMessagesArePlain ==
  \A i \in DOMAIN messages :
    messages[i].role = "user" => ~Has(messages[i], "sources") /\ ~Has(messages[i], "feedback")

\* a question, and an answer that carries both sources and feedback
C24_Witness ==
  \E i, j \in DOMAIN messages :
    /\ messages[i].role = "user"
    /\ messages[j].role = "assistant"
    /\ Has(messages[j], "sources") /\ Has(messages[j], "feedback")

(***************************************************************************)
(* Properties of the feedback modal.                                       *)
(***************************************************************************)
\* a handler of the modal has run
ModalStep == modalVars' # modalVars /\ modalEvent' # "none"

\* C25: opening the modal, toggling a reason, editing the text, Cancel and
\* Submit leave the transcript and its persisted form as they are and
\* issue no request; Cancel and Submit end with the modal hidden, the text
\* empty and no message selected.
C25_NegativeFeedbackRecordsNothing ==
  [][ModalStep =>
       /\ messages' = messages
       /\ chatStore' = chatStore
       /\ UNCHANGED <<asks, runs, validations, lists, deletes>>
       /\ modalEvent' \in {"cancel", "submit"} =>
            /\ ~showFeedbackModal'
            /\ feedbackText' = <<>>
            /\ selectedMessageIndex' = NoSelection]_vars

\* Submit has closed the modal over a transcript whose answer carries no
\* feedback
C25_Witness ==
  /\ modalEvent = "submit"
  /\ ~showFeedbackModal
  /\ \E i \in DOMAIN messages :
       messages[i].role = "assistant" /\ ~Has(messages[i], "feedback")

\* C26: the transcript alternates user, assistant, user, ... from its
\* first message on, and ends with a user message only while an ask is
\* pending.
C26_StrictAlternation ==
  /\ \A i \in DOMAIN messages :
       messages[i].role = IF i % 2 = 1 THEN "user" ELSE "assistant"
  /\ Len(messages) % 2 = 1 => asks # <<>>

\* C27: when no GET /documents request is outstanding and none has failed
\* since the last time none was outstanding, the cache is the list of the
\* documents the service holds.
C27_SettledListsMatchService ==
  (lists = <<>> /\ ~listFailed) => documents = Listing(remoteDocs)

====
